---- MODULE Spec2Model ----
(***************************************************************************)
(* MultiBucket (src/test-file.js, class MultiBucket): provider registry,   *)
(* usage records, the four load-balancing strategies with the rate gate    *)
(* (getStorageProvider) and the configuration merge (updateConfig).        *)
(*                                                                         *)
(* A provider is a JavaScript object: a function from the names of the     *)
(* fields it carries to their values, so that an unset field is a name     *)
(* missing from the domain and the spread {...old, ...new} is the union of *)
(* the two domains with the incoming value winning.                        *)
(*                                                                         *)
(* Node runs every synchronous method to completion, so each method call   *)
(* is one step.  Each getStorageProvider call reads Date.now() once; the   *)
(* clock never runs backwards, and now holds its latest reading.  An async *)
(* method (generateUploadUrl, generateReadUrl) runs to its await in one    *)
(* step and resumes in a later one; other calls interleave in between.     *)
(***************************************************************************)
EXTENDS Integers, Sequences, FiniteSets, TLC

\* ---------------------------------------------------------------- bounds
MaxCalls == 3        \* requests counted over all usage records
MaxUpdates == 1      \* updateConfig calls in one run
MaxTicks == 1        \* milliseconds the clock advances in one run
MaxMerges == 2       \* configuration changes delivered by the watcher in one run
Epoch == 10          \* Date.now() at construction, in ms

\* ------------------------------------------------------ program constants
DefaultRateLimit == 1000     \* provider.rateLimit || 1000
DefaultWeight == 1           \* provider.weight || 1
DefaultExpiry == 3600        \* options.defaultExpiry || 3600
MsPerSecond == 1000          \* 1000 / rateLimit
TenThousand == 10000         \* toFixed(4)

\* ------------------------------------------------------------ input sets
Ids == {"A", "B", "C"}
NoId == "none"
Strategies == {"round-robin", "least-used", "least-errors", "weighted-random", "fastest"}

VARIABLES
    providers,             \* this.providers: sequence of provider objects
    providerUsage,         \* this.providerUsage: id -> usage record
    currentProviderIndex,  \* this.currentProviderIndex (0-based)
    loadBalanceStrategy,   \* this.loadBalanceStrategy
    defaultExpiry,         \* this.defaultExpiry
    now,                   \* the latest reading of Date.now()
    last,                  \* outcome of the most recent getStorageProvider call
    updates,               \* number of updateConfig calls so far
    requests,              \* the API calls of the callers: position and result
    log                    \* what the configuration callback printed last

vars == <<providers, providerUsage, currentProviderIndex, loadBalanceStrategy,
          defaultExpiry, now, last, updates, requests, log>>

\* ------------------------------------------------------ JavaScript objects
Has(obj, f) == f \in DOMAIN obj

\* obj.f || d for a numeric field: unset and 0 are both falsy
OrDefault(obj, f, d) == IF Has(obj, f) /\ obj[f] # 0 THEN obj[f] ELSE d

\* obj with field f set to v
With(obj, f, v) == [g \in DOMAIN obj \cup {f} |-> IF g = f THEN v ELSE obj[g]]

\* every object of S, and every object of S extended by f |-> v, v in V
Optional(S, f, V) == S \cup {With(obj, f, v) : obj \in S, v \in V}

\* variant: the spread with its operands swapped, { ...new, ...old }
SpreadOldWins(old, new) ==
    [f \in DOMAIN old \cup DOMAIN new |-> IF f \in DOMAIN old THEN old[f] ELSE new[f]]

\* { ...old, ...new }
Spread(old, new) ==
    [f \in DOMAIN old \cup DOMAIN new |-> IF f \in DOMAIN new THEN new[f] ELSE old[f]]

\* variant: the lookup never finds the id
findIndexNever(ps, id) == 0

\* providers.findIndex(p => p.id === id), 1-based, 0 for "not found"
findIndex(ps, id) ==
    IF \E i \in 1..Len(ps) : ps[i].id = id
    THEN CHOOSE i \in 1..Len(ps) : ps[i].id = id /\ \A j \in 1..(i - 1) : ps[j].id # id
    ELSE 0

\* the usage record created for a provider
newUsage(provider) ==
    [requestCount |-> 0, errorCount |-> 0, lastUsed |-> 0,
     rateLimit |-> OrDefault(provider, "rateLimit", DefaultRateLimit)]

\* this.providerUsage[id] = rec
setUsage(pu, id, rec) == [i \in DOMAIN pu \cup {id} |-> IF i = id THEN rec ELSE pu[i]]

\* ------------------------------------------------- getStorageProvider
\* Positions in the provider list are 1-based here; position 0 stands for
\* JavaScript's undefined (an index outside the array).

\* round-robin: this.providers[this.currentProviderIndex]
roundRobinPick(ps, cur) == IF cur < Len(ps) THEN cur + 1 ELSE 0

\* variant: the cursor is advanced without wrapping
advanceCursorNoWrap(cur, n) == cur + 1

\* (this.currentProviderIndex + 1) % this.providers.length
advanceCursor(cur, n) == (cur + 1) % n

\* variant: <= in place of <, which prefers the last provider on a tie
lessOrEquallyUsed(pu, current, least) ==
    pu[current].requestCount <= pu[least].requestCount

\* least-used: usage[current].requestCount < usage[least].requestCount
lessUsed(pu, current, least) == pu[current].requestCount < pu[least].requestCount

\* requestCount || 1
rateDenominator(u) == IF u.requestCount = 0 THEN 1 ELSE u.requestCount

\* variant: <= in place of <, which prefers the last provider on a tie
lowerOrEqualErrorRate(pu, current, least) ==
    pu[current].errorCount * rateDenominator(pu[least])
        <= pu[least].errorCount * rateDenominator(pu[current])

\* least-errors: currentErrorRate < leastErrorRate, the two quotients
\* errorCount / (requestCount || 1) compared by cross-multiplication
lowerErrorRate(pu, current, least) ==
    pu[current].errorCount * rateDenominator(pu[least])
        < pu[least].errorCount * rateDenominator(pu[current])

\* this.providers.reduce((least, current) => ..., this.providers[0])
RECURSIVE reduceLeastUsed(_, _, _, _)
reduceLeastUsed(ps, pu, least, i) ==
    IF i > Len(ps) THEN least
    ELSE reduceLeastUsed(ps, pu,
             IF lessUsed(pu, ps[i].id, ps[least].id) THEN i ELSE least, i + 1)

leastUsedPick(ps, pu) == reduceLeastUsed(ps, pu, 1, 1)

RECURSIVE reduceLeastErrors(_, _, _, _)
reduceLeastErrors(ps, pu, least, i) ==
    IF i > Len(ps) THEN least
    ELSE reduceLeastErrors(ps, pu,
             IF lowerErrorRate(pu, ps[i].id, ps[least].id) THEN i ELSE least, i + 1)

leastErrorsPick(ps, pu) == reduceLeastErrors(ps, pu, 1, 1)

\* provider.weight || 1
effectiveWeight(provider) == OrDefault(provider, "weight", DefaultWeight)

RECURSIVE sumWeights(_, _)
sumWeights(ps, i) ==
    IF i > Len(ps) THEN 0 ELSE effectiveWeight(ps[i]) + sumWeights(ps, i + 1)

\* this.providers.reduce((sum, provider) => sum + (provider.weight || 1), 0)
totalWeight(ps) == sumWeights(ps, 1)

\* the for loop of weighted-random; 0 when the loop ends without a choice.
\* With integer weights only the integer part of Math.random() * totalWeight
\* decides, so the draw is an integer of 0 .. totalWeight - 1.
RECURSIVE weightedScan(_, _, _)
weightedScan(ps, random, i) ==
    IF i > Len(ps) THEN 0
    ELSE IF random < effectiveWeight(ps[i]) THEN i
    ELSE weightedScan(ps, random - effectiveWeight(ps[i]), i + 1)

\* the scan, with the fallback to this.providers[0]
weightedPick(ps, random) ==
    LET i == weightedScan(ps, random, 1) IN IF i = 0 THEN 1 ELSE i

\* the values Math.random() * totalWeight takes, as far as the scan can tell
Draws(ps, strategy) ==
    IF strategy = "weighted-random" /\ Len(ps) > 0
    THEN 0 .. (totalWeight(ps) - 1)
    ELSE {0}

\* variant: the switch has no default branch, selectedProvider stays
\* undefined under an unrecognized strategy
strategyCandidateNoDefault(ps, pu, cur, strategy, random) ==
    CASE strategy = "round-robin"     -> roundRobinPick(ps, cur)
      [] strategy = "least-used"      -> leastUsedPick(ps, pu)
      [] strategy = "least-errors"    -> leastErrorsPick(ps, pu)
      [] strategy = "weighted-random" -> weightedPick(ps, random)
      [] OTHER                        -> 0

\* the switch: the strategy's candidate
strategyCandidate(ps, pu, cur, strategy, random) ==
    CASE strategy = "round-robin"     -> roundRobinPick(ps, cur)
      [] strategy = "least-used"      -> leastUsedPick(ps, pu)
      [] strategy = "least-errors"    -> leastErrorsPick(ps, pu)
      [] strategy = "weighted-random" -> weightedPick(ps, random)
      [] OTHER                        -> 1

\* variant: the cursor is left where it was
cursorAfterStale(ps, cur, strategy) == cur

\* the cursor after the switch: only round-robin moves it
cursorAfter(ps, cur, strategy) ==
    IF strategy = "round-robin" THEN advanceCursor(cur, Len(ps)) ELSE cur

\* now - usage.lastUsed >= 1000 / usage.rateLimit   (rateLimit > 0)
gateOpen(u, t) == (t - u.lastUsed) * u.rateLimit >= MsPerSecond

\* this.providers.find(p => gate of p is open), 0 for undefined
findAvailable(ps, pu, t) ==
    IF \E i \in 1..Len(ps) : gateOpen(pu[ps[i].id], t)
    THEN CHOOSE i \in 1..Len(ps) :
             /\ gateOpen(pu[ps[i].id], t)
             /\ \A j \in 1..(i - 1) : ~gateOpen(pu[ps[j].id], t)
    ELSE 0

\* variant: the candidate is returned whatever its gate says
rateGateIgnored(ps, pu, c, t) == c

\* the rate gate: the position returned for candidate position c
rateGate(ps, pu, c, t) ==
    IF gateOpen(pu[ps[c].id], t) THEN c
    ELSE LET a == findAvailable(ps, pu, t) IN IF a > 0 THEN a ELSE c

\* variant: the selector returns without recording the use
recordUseSkipped(ps, pu, c, selected, t) == pu

\* variant: the use is recorded for the candidate and for the provider
\* returned in its place
recordUseBoth(ps, pu, c, selected, t) ==
    [id \in DOMAIN pu |->
        IF id \in {ps[c].id, ps[selected].id}
        THEN [pu[id] EXCEPT !.requestCount = @ + 1, !.lastUsed = t]
        ELSE pu[id]]

\* providerUsage.requestCount++; providerUsage.lastUsed = now, where
\* providerUsage was bound to the candidate's record before the gate
recordUse(ps, pu, c, selected, t) ==
    [pu EXCEPT ![ps[c].id] = [@ EXCEPT !.requestCount = @ + 1, !.lastUsed = t]]

\* getStorageProvider past the empty check: the switch, the gate and the
\* usage update.  An undefined selectedProvider makes selectedProvider.id
\* throw a TypeError after the switch has run.
selectAmong(ps, pu, cur, strategy, t, random) ==
    LET c == strategyCandidate(ps, pu, cur, strategy, random)
        cur2 == cursorAfter(ps, cur, strategy)
    IN IF c = 0
       THEN [status |-> "TypeError", candidate |-> NoId, returned |-> NoId,
             cursor |-> cur2, usage |-> pu]
       ELSE LET selected == rateGate(ps, pu, c, t)
            IN [status |-> "ok", candidate |-> ps[c].id,
                returned |-> ps[selected].id, cursor |-> cur2,
                usage |-> recordUse(ps, pu, c, selected, t)]

\* variant: the empty check is missing, so that on an empty list every
\* branch of the switch leaves selectedProvider undefined
selectOutcomeUnchecked(ps, pu, cur, strategy, t, random) ==
    IF Len(ps) = 0
    THEN [status |-> "TypeError", candidate |-> NoId, returned |-> NoId,
          cursor |-> cur, usage |-> pu]
    ELSE selectAmong(ps, pu, cur, strategy, t, random)

\* One call of getStorageProvider: what it throws or returns, and the
\* cursor and usage records it leaves.
selectOutcome(ps, pu, cur, strategy, t, random) ==
    IF Len(ps) = 0
    THEN [status |-> "NoProvidersConfigured", candidate |-> NoId, returned |-> NoId,
          cursor |-> cur, usage |-> pu]
    ELSE selectAmong(ps, pu, cur, strategy, t, random)

\* ------------------------------------------------------------ updateConfig
\* The registry and the usage records travel together through the merge.

\* st.threw tells that the call has thrown: nothing after that point runs.

\* a null entry of configData.providers (JSON null): not an object
Null == [null |-> TRUE]

isNull(entry) == Has(entry, "null")

\* variant: a new provider is put at the front of the list (unshift)
mergeProviderUnshift(st, newProvider) ==
    IF isNull(newProvider)
    THEN [providers |-> st.providers, usage |-> st.usage, threw |-> TRUE]
    ELSE LET existingProviderIndex == findIndex(st.providers, newProvider.id)
         IN IF existingProviderIndex > 0
            THEN [providers |-> [st.providers EXCEPT
                                     ![existingProviderIndex] = Spread(@, newProvider)],
                  usage |-> st.usage, threw |-> FALSE]
            ELSE [providers |-> <<newProvider>> \o st.providers,
                  usage |-> setUsage(st.usage, newProvider.id, newUsage(newProvider)),
                  threw |-> FALSE]

\* variant: a new provider is pushed without a usage record
mergeProviderNoUsage(st, newProvider) ==
    IF isNull(newProvider)
    THEN [providers |-> st.providers, usage |-> st.usage, threw |-> TRUE]
    ELSE LET existingProviderIndex == findIndex(st.providers, newProvider.id)
         IN IF existingProviderIndex > 0
            THEN [providers |-> [st.providers EXCEPT
                                     ![existingProviderIndex] = Spread(@, newProvider)],
                  usage |-> st.usage, threw |-> FALSE]
            ELSE [providers |-> Append(st.providers, newProvider),
                  usage |-> st.usage, threw |-> FALSE]

\* the body of configData.providers.forEach(newProvider => ...).  Reading
\* newProvider.id of null throws a TypeError: in the findIndex callback
\* when the list has an element to test, otherwise after the push.
mergeProvider(st, newProvider) ==
    IF isNull(newProvider)
    THEN IF Len(st.providers) > 0
         THEN [providers |-> st.providers, usage |-> st.usage, threw |-> TRUE]
         ELSE [providers |-> Append(st.providers, newProvider),
               usage |-> st.usage, threw |-> TRUE]
    ELSE LET existingProviderIndex == findIndex(st.providers, newProvider.id)
         IN IF existingProviderIndex > 0
            THEN [providers |-> [st.providers EXCEPT
                                     ![existingProviderIndex] = Spread(@, newProvider)],
                  usage |-> st.usage, threw |-> FALSE]
            ELSE [providers |-> Append(st.providers, newProvider),
                  usage |-> setUsage(st.usage, newProvider.id, newUsage(newProvider)),
                  threw |-> FALSE]

RECURSIVE mergeProviders(_, _, _)
mergeProviders(st, incoming, k) ==
    IF k > Len(incoming) \/ st.threw THEN st
    ELSE mergeProviders(mergeProvider(st, incoming[k]), incoming, k + 1)

\* newProviderIds.includes(p.id)
isIncoming(incoming, id) == \E k \in 1..Len(incoming) : incoming[k].id = id

\* this.providers = this.providers.filter(p => newProviderIds.includes(p.id))
removeStale(st, incoming) ==
    [providers |-> SelectSeq(st.providers, LAMBDA p : isIncoming(incoming, p.id)),
     usage |-> st.usage, threw |-> FALSE]

\* if (configData.removeStaleProviders)
wantsRemoval(configData) ==
    Has(configData, "removeStaleProviders") /\ configData.removeStaleProviders

\* variant: the provider list is merged, the settings are not applied
configOutcomeProvidersOnly(ps, pu, strategy, expiry, configData) ==
    LET st == [providers |-> ps, usage |-> pu, threw |-> FALSE]
        m == IF Has(configData, "providers")
             THEN mergeProviders(st, configData.providers, 1)
             ELSE st
    IN [providers |-> m.providers, usage |-> m.usage, threw |-> m.threw,
        strategy |-> strategy, expiry |-> expiry]

\* variant: a setting the payload does not carry falls back to its default,
\* as in the constructor
configOutcomeDefaults(ps, pu, strategy, expiry, configData) ==
    LET st == [providers |-> ps, usage |-> pu, threw |-> FALSE]
        merged == IF Has(configData, "providers")
                  THEN LET m == mergeProviders(st, configData.providers, 1)
                       IN IF wantsRemoval(configData) /\ ~m.threw
                          THEN removeStale(m, configData.providers)
                          ELSE m
                  ELSE st
    IN [providers |-> merged.providers,
        usage |-> merged.usage,
        threw |-> merged.threw,
        strategy |-> IF merged.threw THEN strategy
                     ELSE IF Has(configData, "loadBalanceStrategy")
                     THEN configData.loadBalanceStrategy
                     ELSE "round-robin",
        expiry |-> IF merged.threw THEN expiry
                   ELSE OrDefault(configData, "defaultExpiry", DefaultExpiry)]

\* One call of updateConfig: the registry, usage records and settings it
\* leaves, and whether it threw; a throw in the forEach skips the removal
\* and the settings.
configOutcome(ps, pu, strategy, expiry, configData) ==
    LET st == [providers |-> ps, usage |-> pu, threw |-> FALSE]
        merged == IF Has(configData, "providers")
                  THEN LET m == mergeProviders(st, configData.providers, 1)
                       IN IF wantsRemoval(configData) /\ ~m.threw
                          THEN removeStale(m, configData.providers)
                          ELSE m
                  ELSE st
    IN [providers |-> merged.providers,
        usage |-> merged.usage,
        threw |-> merged.threw,
        strategy |-> IF ~merged.threw
                        /\ Has(configData, "loadBalanceStrategy")
                        /\ configData.loadBalanceStrategy # ""
                     THEN configData.loadBalanceStrategy
                     ELSE strategy,
        expiry |-> IF merged.threw THEN expiry
                   ELSE OrDefault(configData, "defaultExpiry", expiry)]

\* --------------------------------------------------------------- inputs
\* the provider lists the constructor is given: none, A, or A then B,
\* where A may have a rate limit of its own and B has weight 0
InitRegistries ==
    {<< >>,
     <<[id |-> "A", bucket |-> "b1", weight |-> 1]>>,
     <<[id |-> "A", bucket |-> "b1", weight |-> 1],
       [id |-> "B", bucket |-> "b2", weight |-> 0]>>,
     <<[id |-> "A", bucket |-> "b1", weight |-> 1, rateLimit |-> 500],
       [id |-> "B", bucket |-> "b2", weight |-> 0]>>}

\* the provider objects a configuration payload carries
IncomingProviders ==
    {[id |-> "A", rateLimit |-> 250], [id |-> "C"]}

IncomingLists ==
    {<< >>}
    \cup {<<e>> : e \in IncomingProviders}
    \cup {<<[id |-> "A", rateLimit |-> 250], [id |-> "C"]>>}

\* the configuration payloads: provider lists with the removal flag, and
\* payloads that carry settings
ConfigPayloads ==
    {[providers |-> l, removeStaleProviders |-> r] : l \in IncomingLists, r \in BOOLEAN}
    \cup {[loadBalanceStrategy |-> "round-robin"],
          [loadBalanceStrategy |-> "fastest"],
          [providers |-> <<[id |-> "C"]>>, loadBalanceStrategy |-> "least-used",
           defaultExpiry |-> 7200]}

\* ---------------------------------------------------------- the machine
RECURSIVE sumOver(_, _, _)
sumOver(pu, ids, f) ==
    IF ids = {} THEN 0
    ELSE LET id == CHOOSE i \in ids : TRUE
         IN pu[id][f] + sumOver(pu, ids \ {id}, f)

\* Object.values(this.providerUsage).reduce((sum, usage) => sum + usage.requestCount, 0)
totalRequests(pu) == sumOver(pu, DOMAIN pu, "requestCount")

NoCall == [status |-> "none", candidate |-> NoId, returned |-> NoId]

\* the callers whose API calls are followed, one call each
Requests == {"r1", "r2"}

\* a caller that has not called yet
Idle == [pc |-> "idle"]

RECURSIVE initUsage(_, _)
initUsage(ps, i) ==
    IF i > Len(ps) THEN << >>
    ELSE setUsage(initUsage(ps, i + 1), ps[i].id, newUsage(ps[i]))

\* new MultiBucket({providers, loadBalanceStrategy}), no configSource
Init ==
    /\ providers \in InitRegistries
    /\ providerUsage = initUsage(providers, 1)
    /\ currentProviderIndex = 0
    /\ loadBalanceStrategy \in Strategies
    /\ defaultExpiry = DefaultExpiry
    /\ now = Epoch
    /\ last = NoCall
    /\ updates = 0
    /\ requests = [r \in Requests |-> Idle]
    /\ log = "none"

getStorageProvider(t, random) ==
    /\ totalRequests(providerUsage) < MaxCalls
    /\ now' = t
    /\ LET out == selectOutcome(providers, providerUsage, currentProviderIndex,
                                loadBalanceStrategy, t, random)
       IN /\ currentProviderIndex' = out.cursor
          /\ providerUsage' = out.usage
          /\ last' = [status |-> out.status, candidate |-> out.candidate,
                      returned |-> out.returned]
    /\ UNCHANGED <<providers, loadBalanceStrategy, defaultExpiry, updates, requests, log>>

updateConfig(configData) ==
    /\ updates < MaxUpdates
    /\ LET out == configOutcome(providers, providerUsage, loadBalanceStrategy,
                                defaultExpiry, configData)
       IN /\ providers' = out.providers
          /\ providerUsage' = out.usage
          /\ loadBalanceStrategy' = out.strategy
          /\ defaultExpiry' = out.expiry
    /\ updates' = updates + 1
    /\ UNCHANGED <<currentProviderIndex, now, last, requests, log>>

\* this.providerUsage[id].errorCount++ : the error accounting of a failed
\* generation attempt against provider id (each request fails at most once)
reportError(id) ==
    /\ providerUsage[id].errorCount < providerUsage[id].requestCount
    /\ providerUsage' = [providerUsage EXCEPT ![id].errorCount = @ + 1]
    /\ UNCHANGED <<providers, currentProviderIndex, loadBalanceStrategy, defaultExpiry,
                   now, last, updates, requests, log>>

\* the values Date.now() can return at the next call
Instants == now .. (Epoch + MaxTicks)

Next ==
    \/ \E t \in Instants, random \in Draws(providers, loadBalanceStrategy) :
           getStorageProvider(t, random)
    \/ \E configData \in ConfigPayloads : updateConfig(configData)
    \/ \E id \in DOMAIN providerUsage : reportError(id)

Spec == Init /\ [][Next]_vars

\* ================================================================ claims
\* A step that is one call of getStorageProvider / of updateConfig.
SelectStep ==
    \E t \in Instants, random \in Draws(providers, loadBalanceStrategy) :
        getStorageProvider(t, random)

\* only updateConfig counts an update, so a step that counts one is a call
\* of updateConfig
ConfigStep == updates' = updates + 1

RegistryIds == {providers[i].id : i \in 1..Len(providers)}

\* the usage record of the provider at list position i
UsageAt(i) == providerUsage[providers[i].id]

\* now - lastUsedAt >= 1000 / rateLimit at time t
IntervalElapsed(u, t) == (t - u.lastUsed) * u.rateLimit >= 1000

\* ----------------------------------------------------------------- C1
\* C1 (as claimed): after every successful selection the provider returned
\* is the one whose usage record was updated: its requestCount is one
\* higher than before the call and its lastUsed is the call's now.
C1_ReturnedProviderIsUpdated ==
    [][(SelectStep /\ last'.status = "ok") =>
          /\ providerUsage'[last'.returned].requestCount
                 = providerUsage[last'.returned].requestCount + 1
          /\ providerUsage'[last'.returned].lastUsed = now']_vars

\* ----------------------------------------------------------------- C2
\* round-robin since construction, the registry never changed
RoundRobinRun ==
    updates = 0 /\ loadBalanceStrategy = "round-robin" /\ Len(providers) > 0

SameRateLimits ==
    \A i, j \in 1..Len(providers) : UsageAt(i).rateLimit = UsageAt(j).rateLimit

\* the provider at list index k mod n, k the number of earlier calls
KthProvider ==
    providers[(totalRequests(providerUsage) % Len(providers)) + 1].id

\* C2 (as claimed): under round-robin with an unchanged registry of n
\* providers the k-th call returns the provider at list index k mod n.
C2_RoundRobinReturnsKth ==
    [][(SelectStep /\ RoundRobinRun) =>
          /\ last'.status = "ok"
          /\ last'.returned = KthProvider]_vars

\* C2 (amended): under round-robin with an unchanged registry of n
\* providers and the cursor starting at 0, the candidate of the k-th call
\* is the provider at list index k mod n and the cursor becomes
\* (k + 1) mod n; that candidate is the provider returned whenever its rate
\* gate is satisfied, and always when all providers have the same rate
\* limit ([A, B] with equal limits called 3 times yields A, B, A).
C2_RoundRobinCandidate ==
    [][(SelectStep /\ RoundRobinRun) =>
          /\ last'.status = "ok"
          /\ last'.candidate = KthProvider
          /\ currentProviderIndex'
                 = (totalRequests(providerUsage) + 1) % Len(providers)
          /\ (IntervalElapsed(providerUsage[KthProvider], now') \/ SameRateLimits)
                 => last'.returned = KthProvider]_vars

\* [A, B] with equal limits, called three times: the third call returned A
C2_Witness ==
    /\ RoundRobinRun /\ SameRateLimits
    /\ Len(providers) = 2
    /\ totalRequests(providerUsage) = 3
    /\ last.status = "ok" /\ last.candidate = "A" /\ last.returned = "A"
    /\ currentProviderIndex = 1

\* ----------------------------------------------------------------- C3
\* the first list position holding the minimum requestCount
LeastUsedPosition ==
    CHOOSE i \in 1..Len(providers) :
        /\ \A j \in 1..Len(providers) : UsageAt(i).requestCount <= UsageAt(j).requestCount
        /\ \A j \in 1..(i - 1) : UsageAt(j).requestCount > UsageAt(i).requestCount

RateBelow(u, v) ==
    LET du == IF u.requestCount >= 1 THEN u.requestCount ELSE 1
        dv == IF v.requestCount >= 1 THEN v.requestCount ELSE 1
    IN u.errorCount * dv < v.errorCount * du

\* the first list position holding the minimum error rate
LeastErrorsPosition ==
    CHOOSE i \in 1..Len(providers) :
        /\ \A j \in 1..Len(providers) : ~RateBelow(UsageAt(j), UsageAt(i))
        /\ \A j \in 1..(i - 1) : RateBelow(UsageAt(i), UsageAt(j))

C5_ZeroWeightNeverReturned ==
    [][(SelectStep /\ loadBalanceStrategy = "weighted-random" /\ last'.status = "ok") =>
          \A i \in 1..Len(providers) :
              (Has(providers[i], "weight") /\ providers[i].weight = 0)
                  => last'.returned # providers[i].id]_vars

\* ----------------------------------------------------------------- C6
\* the first list position whose own gate is satisfied at time t
FirstOpenPosition(t) ==
    CHOOSE i \in 1..Len(providers) :
        /\ IntervalElapsed(UsageAt(i), t)
        /\ \A j \in 1..(i - 1) : ~IntervalElapsed(UsageAt(j), t)

\* the strategy has a candidate: the list is not empty and the round-robin
\* cursor points into it
HasCandidate ==
    /\ Len(providers) > 0
    /\ loadBalanceStrategy = "round-robin" => currentProviderIndex < Len(providers)

\* C6: a candidate whose gate is satisfied (now - lastUsed >= 1000 /
\* rateLimit, on its usage record) is returned unchanged; otherwise the
\* first provider in list order whose own gate is satisfied is returned,
\* and the candidate itself when none is.  So a provider inside its minimum
\* interval is returned only when every provider is inside its own, and the
\* gate never makes the call fail.
C6_RateGate ==
    [][(SelectStep /\ HasCandidate) =>
          LET c == last'.candidate
              r == last'.returned
              open(id) == IntervalElapsed(providerUsage[id], now')
              someOpen == \E i \in 1..Len(providers) : open(providers[i].id)
          IN /\ last'.status = "ok"
             /\ c \in RegistryIds /\ r \in RegistryIds
             /\ open(c) => r = c
             /\ (~open(c) /\ someOpen) => r = providers[FirstOpenPosition(now')].id
             /\ ~someOpen => r = c
             /\ ~open(r) => \A i \in 1..Len(providers) : ~open(providers[i].id)]_vars

\* the gate substituted another provider for the candidate
C6_Witness ==
    /\ last.status = "ok"
    /\ last.candidate # last.returned
    /\ providerUsage[last.candidate].lastUsed = now

\* ----------------------------------------------------------------- C7
\* C7: whatever the strategy value, a call on an empty registry fails with
\* NoProvidersConfigured, returns no provider and changes nothing.
C7_EmptyRegistryFails ==
    [][(SelectStep /\ Len(providers) = 0) =>
          /\ last'.status = "NoProvidersConfigured"
          /\ last'.returned = NoId
          /\ UNCHANGED <<providers, providerUsage, currentProviderIndex>>]_vars

\* the call failed on an empty registry under an unrecognized strategy
C7_Witness ==
    /\ Len(providers) = 0
    /\ loadBalanceStrategy = "fastest"
    /\ last.status = "NoProvidersConfigured"

\* ----------------------------------------------------------------- C8
\* C8 (as claimed): a call on a non-empty registry never fails and returns
\* a provider that is in the registry, i.e. the cursor always indexes an
\* existing list position.
C8_NonEmptySelectionSucceeds ==
    [][(SelectStep /\ Len(providers) > 0) =>
          /\ last'.status = "ok"
          /\ last'.returned \in RegistryIds]_vars

\* ----------------------------------------------------------------- C9
\* the provider list of a payload
Incoming(configData) ==
    IF Has(configData, "providers") THEN configData.providers ELSE << >>

\* C9 (as claimed): a merge with removeStaleProviders set removes every
\* provider whose id is absent from the incoming list, and its usage
\* record: afterwards no usage record exists for a removed id.
C9_StaleUsageRemoved ==
    [][ConfigStep => \A configData \in ConfigPayloads :
          (wantsRemoval(configData) /\ updateConfig(configData)) =>
              \A i \in 1..Len(providers) :
                  ~isIncoming(Incoming(configData), providers[i].id) =>
                      /\ providers[i].id \notin RegistryIds'
                      /\ providers[i].id \notin DOMAIN providerUsage']_vars

\* ---------------------------------------------------------------- C10
\* the fields the payload gives for id, and the value it gives for field f
\* (the last entry for id that carries f)
GivenFields(incoming, id) ==
    UNION {DOMAIN incoming[k] : k \in {j \in 1..Len(incoming) : incoming[j].id = id}}

GivenValue(incoming, id, f) ==
    LET K == {k \in 1..Len(incoming) : incoming[k].id = id /\ f \in DOMAIN incoming[k]}
        k == CHOOSE x \in K : \A y \in K : y <= x
    IN incoming[k][f]

\* C10: a merge without removal keeps every existing provider at its list
\* position; one whose id is in the incoming list takes the values the
\* payload gives and retains every other field; one whose id is not in the
\* list keeps all its fields and its usage record.
C10_MergeKeepsTheRest ==
    [][ConfigStep => \A configData \in ConfigPayloads :
          (~wantsRemoval(configData) /\ updateConfig(configData)) =>
              /\ Len(providers') >= Len(providers)
              /\ \A i \in 1..Len(providers) :
                    LET p == providers[i]
                        q == providers'[i]
                        inc == Incoming(configData)
                    IN IF isIncoming(inc, p.id)
                       THEN /\ DOMAIN q = DOMAIN p \cup GivenFields(inc, p.id)
                            /\ \A f \in DOMAIN q :
                                   q[f] = IF f \in GivenFields(inc, p.id)
                                          THEN GivenValue(inc, p.id, f)
                                          ELSE p[f]
                       ELSE /\ q = p
                            /\ providerUsage'[p.id] = providerUsage[p.id]]_vars

\* A took rateLimit 250 from the payload and kept bucket and weight; B,
\* which the payload did not name, is still there with its usage record
C10_Witness ==
    /\ updates = 1
    /\ Len(providers) = 2
    /\ providers[1] = [id |-> "A", bucket |-> "b1", weight |-> 1, rateLimit |-> 250]
    /\ providers[2] = [id |-> "B", bucket |-> "b2", weight |-> 0]
    /\ providerUsage["A"].rateLimit = 500
    /\ providerUsage["B"].requestCount = 1

\* ====================================================== the URL interface
\* JavaScript's undefined, as the value of a field an object does not carry
Undefined == "undefined"

Field(obj, f) == IF Has(obj, f) THEN obj[f] ELSE Undefined

SupportedTypes == {"s3", "r2"}

\* variant: every type gets a client
createClientAnyType(provider) ==
    [status |-> "ok",
     client |-> [region |-> "auto", endpoint |-> Field(provider, "endpoint"),
                 forcePathStyle |-> TRUE]]

\* createClient(provider): the S3Client configuration, or the error thrown
createClient(provider) ==
    IF Field(provider, "type") = "s3"
    THEN [status |-> "ok",
          client |-> [region |-> Field(provider, "region"),
                      endpoint |-> Field(provider, "endpoint"),
                      forcePathStyle |-> Has(provider, "forcePathStyle")
                                             /\ provider.forcePathStyle]]
    ELSE IF Field(provider, "type") = "r2"
    THEN [status |-> "ok",
          client |-> [region |-> "auto", endpoint |-> Field(provider, "endpoint"),
                      forcePathStyle |-> TRUE]]
    ELSE [status |-> "error",
          error |-> [kind |-> "UnsupportedProviderType",
                     type |-> Field(provider, "type")]]

\* variant: the last match in place of the first
findLast(ps, f, v) ==
    IF \E i \in 1..Len(ps) : Field(ps[i], f) = v
    THEN CHOOSE i \in 1..Len(ps) :
             /\ Field(ps[i], f) = v
             /\ \A j \in (i + 1)..Len(ps) : Field(ps[j], f) # v
    ELSE 0

\* this.providers.find(p => p[f] === v), as a list position, 0 for undefined
find(ps, f, v) ==
    IF \E i \in 1..Len(ps) : Field(ps[i], f) = v
    THEN CHOOSE i \in 1..Len(ps) :
             /\ Field(ps[i], f) = v
             /\ \A j \in 1..(i - 1) : Field(ps[j], f) # v
    ELSE 0

\* text.replace(/^\/|\/$/g, ''): one leading and one trailing slash go;
\* a text is the sequence of its pieces
stripSlashes(text) ==
    LET front == IF Len(text) > 0 /\ Head(text) = "/" THEN Tail(text) ELSE text
    IN IF Len(front) > 0 /\ front[Len(front)] = "/"
       THEN SubSeq(front, 1, Len(front) - 1)
       ELSE front

\* text.replace(/\/$/g, ''): one trailing slash goes
stripTrailingSlash(text) ==
    IF Len(text) > 0 /\ text[Len(text)] = "/" THEN SubSeq(text, 1, Len(text) - 1) ELSE text

\* crypto.randomUUID() in the call of caller r: no other call draws it
randomUUID(r) == r

\* the object key: `${path}/${uniqueId}-${filename}` or `${uniqueId}-${filename}`
uploadKey(options, uniqueId) ==
    IF Has(options, "path") /\ Len(options.path) > 0
    THEN stripSlashes(options.path) \o <<"/", uniqueId, "-", options.filename>>
    ELSE <<uniqueId, "-", options.filename>>

\* the public URL of an uploaded object: a text, or null for an r2
\* provider without a public base
publicUrlOf(provider, key) ==
    IF Field(provider, "type") = "s3" /\ ~Has(provider, "publicUrlBase")
    THEN [text |-> <<"https://", Field(provider, "bucket"), ".s3.",
                     Field(provider, "region"), ".amazonaws.com/">> \o key]
    ELSE IF Has(provider, "publicUrlBase")
    THEN [text |-> stripTrailingSlash(provider.publicUrlBase) \o <<"/">> \o key]
    ELSE Null

\* the error a generation call rejects with: the wrapped inner error
failed(op, error) == [pc |-> "done", status |-> "error", op |-> op, error |-> error]

\* variant: the providerId option is not looked at
uploadPositionSelected(ps, options, selected) == selected

\* options.providerId ? this.providers.find(p => p.id === options.providerId)
\*                    : this.getStorageProvider()
\* as a list position, selected being the position the selector returned
uploadPosition(ps, options, selected) ==
    IF Has(options, "providerId") THEN findIndex(ps, options.providerId) ELSE selected

\* variant: the selector is called whatever the options
delegatesAlways(options) == TRUE

\* options.providerId ? ... : this.getStorageProvider()
\* the call leaves the choice to the selector
delegates(options) == ~Has(options, "providerId")

\* The synchronous part of generateUploadUrl in the call of caller r, up to
\* await getSignedUrl: the caller's new position, and the cursor, usage
\* records and selection outcome (old when the selector is not called) it
\* leaves.  No error thrown here carries providerInfo, so the
\* catch block counts no error.
uploadStart(ps, pu, cur, strategy, expiry, old, options, t, random, r) ==
    LET delegated == delegates(options)
        sel == selectOutcome(ps, pu, cur, strategy, t, random)
        position == uploadPosition(ps, options,
                        IF sel.status = "ok" THEN findIndex(ps, sel.returned) ELSE 0)
        client == createClient(ps[position])
        after == [cursor |-> IF delegated THEN sel.cursor ELSE cur,
                  usage |-> IF delegated THEN sel.usage ELSE pu,
                  last |-> IF delegated
                           THEN [status |-> sel.status, candidate |-> sel.candidate,
                                 returned |-> sel.returned]
                           ELSE old]
    IN IF delegated /\ sel.status # "ok"
       THEN after @@ [request |-> failed("upload", [kind |-> sel.status])]
       ELSE IF position = 0
       THEN after @@ [request |-> failed("upload", [kind |-> "ProviderNotFound",
                                                    providerId |-> options.providerId])]
       ELSE IF client.status # "ok"
       THEN after @@ [request |-> failed("upload", client.error)]
       ELSE after
            @@ [request |-> [pc |-> "signing", op |-> "upload",
                             provider |-> ps[position],
                             client |-> client.client,
                             key |-> uploadKey(options, randomUUID(r)),
                             expiry |-> OrDefault(options, "expiry", expiry)]]

\* The synchronous part of generateReadUrl, up to await getSignedUrl.
readStart(ps, expiry, options) ==
    LET position == IF Has(options, "providerId") THEN findIndex(ps, options.providerId)
                    ELSE IF Has(options, "bucket") THEN find(ps, "bucket", options.bucket)
                    ELSE 0
        client == createClient(ps[position])
    IN IF position = 0
       THEN failed("read", [kind |-> "ProviderNotFound"])
       ELSE IF client.status # "ok"
       THEN failed("read", client.error)
       ELSE [pc |-> "signing", op |-> "read",
             provider |-> ps[position],
             client |-> client.client,
             key |-> options.key,
             expiry |-> OrDefault(options, "expiry", expiry)]

\* what the call resolves with once the signer has answered at time t
signedResult(req, t) ==
    LET common == [pc |-> "done", status |-> "ok", op |-> req.op,
                   key |-> req.key,
                   bucket |-> Field(req.provider, "bucket"),
                   provider |-> req.provider.id,
                   expires |-> t + req.expiry * MsPerSecond]
    IN IF req.op = "upload"
       THEN common @@ [publicUrl |-> publicUrlOf(req.provider, req.key)]
       ELSE common

\* (errorCount / requestCount).toFixed(4): the integer part and the four
\* decimals of the quotient rounded to the nearest ten-thousandth
toFixed4(errorCount, requestCount) ==
    LET n == (2 * TenThousand * errorCount + requestCount) \div (2 * requestCount)
    IN <<n \div TenThousand, n % TenThousand>>

\* the errorRate of a usage record: a string when there were requests,
\* the number 0 otherwise
errorRate(u) ==
    IF u.requestCount > 0
    THEN [string |-> toFixed4(u.errorCount, u.requestCount)]
    ELSE [number |-> 0]

\* getStats(): the snapshot returned
statsOf(ps, pu) ==
    [providerCount |-> Len(ps),
     totalRequests |-> totalRequests(pu),
     providerStats |-> [i \in 1..Len(ps) |->
         [id |-> ps[i].id,
          type |-> Field(ps[i], "type"),
          requestCount |-> pu[ps[i].id].requestCount,
          errorCount |-> pu[ps[i].id].errorCount,
          errorRate |-> errorRate(pu[ps[i].id])]]]

\* the registries of the URL interface: A and B share a bucket; B is an r2
\* provider with a public base, or a provider of a type without a client
ApiRegistries ==
    {<<[id |-> "A", type |-> "s3", bucket |-> "b1", region |-> "eu"],
       [id |-> "B", type |-> "r2", bucket |-> "b1", publicUrlBase |-> <<"cdn", "/">>]>>,
     <<[id |-> "A", type |-> "s3", bucket |-> "b1", region |-> "eu"],
       [id |-> "B", type |-> "ftp", bucket |-> "b2"]>>}

UploadOptions ==
    {[filename |-> "f"],
     [filename |-> "f", path |-> <<"/", "up", "/">>, expiry |-> 60],
     [filename |-> "f", path |-> <<"/", "/", "up">>, providerId |-> "A"],
     [filename |-> "f", providerId |-> "B"],
     [filename |-> "f", providerId |-> "Z"]}

ReadOptions ==
    {[key |-> <<"k">>],
     [key |-> <<"k">>, providerId |-> "B"],
     [key |-> <<"k">>, providerId |-> "Z", bucket |-> "b1"],
     [key |-> <<"k">>, bucket |-> "b1"],
     [key |-> <<"k">>, bucket |-> "b2", expiry |-> 60],
     [key |-> <<"k">>, bucket |-> "b9"]}

\* new MultiBucket({providers}): the strategy defaults to round-robin
InitApi ==
    /\ providers \in ApiRegistries
    /\ providerUsage = initUsage(providers, 1)
    /\ currentProviderIndex = 0
    /\ loadBalanceStrategy = "round-robin"
    /\ defaultExpiry = DefaultExpiry
    /\ now = Epoch
    /\ last = NoCall
    /\ updates = 0
    /\ requests = [r \in Requests |-> Idle]
    /\ log = "none"

\* caller r calls generateUploadUrl(options): the call runs to its await
generateUploadUrl(r, options, t, random) ==
    /\ requests[r].pc = "idle"
    /\ LET out == uploadStart(providers, providerUsage, currentProviderIndex,
                              loadBalanceStrategy, defaultExpiry, last, options,
                              t, random, r)
       IN /\ currentProviderIndex' = out.cursor
          /\ providerUsage' = out.usage
          /\ last' = out.last
          /\ requests' = [requests EXCEPT ![r] = out.request]
    /\ now' = IF delegates(options) THEN t ELSE now
    /\ UNCHANGED <<providers, loadBalanceStrategy, defaultExpiry, updates, log>>

\* caller r calls generateReadUrl(options): the call runs to its await
generateReadUrl(r, options) ==
    /\ requests[r].pc = "idle"
    /\ requests' = [requests EXCEPT ![r] = readStart(providers, defaultExpiry, options)]
    /\ UNCHANGED <<providers, providerUsage, currentProviderIndex, loadBalanceStrategy,
                   defaultExpiry, now, last, updates, log>>

\* getSignedUrl resolves for caller r; the result is built with Date.now() = t
signed(r, t) ==
    /\ requests[r].pc = "signing"
    /\ requests' = [requests EXCEPT ![r] = signedResult(@, t)]
    /\ now' = t
    /\ UNCHANGED <<providers, providerUsage, currentProviderIndex, loadBalanceStrategy,
                   defaultExpiry, last, updates, log>>

\* variant: the error is counted against the provider of the attempt
countErrorOfAttempt(pu, attempted, info) ==
    IF attempted \in DOMAIN pu
    THEN [pu EXCEPT ![attempted].errorCount = @ + 1]
    ELSE pu

\* the catch block of generateUploadUrl, for an attempt against provider
\* attempted:
\*   if (error.providerInfo && this.providerUsage[error.providerInfo.id])
\*       this.providerUsage[error.providerInfo.id].errorCount++
\* info is error.providerInfo.id, NoId for an error without providerInfo
countError(pu, attempted, info) ==
    IF info \in DOMAIN pu
    THEN [pu EXCEPT ![info].errorCount = @ + 1]
    ELSE pu

\* getSignedUrl rejects for caller r with an error whose providerInfo names
\* the provider id info, or that has no providerInfo (info = NoId); only
\* the catch block of generateUploadUrl looks at it
signerFailed(r, info) ==
    /\ requests[r].pc = "signing"
    /\ requests' = [requests EXCEPT ![r] = failed(@.op, [kind |-> "SignerError"])]
    /\ providerUsage' =
           IF requests[r].op = "upload"
           THEN countError(providerUsage, requests[r].provider.id, info)
           ELSE providerUsage
    /\ UNCHANGED <<providers, currentProviderIndex, loadBalanceStrategy,
                   defaultExpiry, now, last, updates, log>>

\* variant: the snapshot also rewinds the round-robin cursor
getStatsRewinding(r) ==
    /\ requests[r].pc = "idle"
    /\ requests' = [requests EXCEPT ![r] =
                        [pc |-> "done", status |-> "ok", op |-> "stats"]
                        @@ statsOf(providers, providerUsage)]
    /\ currentProviderIndex' = 0
    /\ UNCHANGED <<providers, providerUsage, loadBalanceStrategy,
                   defaultExpiry, now, last, updates, log>>

\* caller r calls getStats()
getStats(r) ==
    /\ requests[r].pc = "idle"
    /\ requests' = [requests EXCEPT ![r] =
                        [pc |-> "done", status |-> "ok", op |-> "stats"]
                        @@ statsOf(providers, providerUsage)]
    /\ UNCHANGED <<providers, providerUsage, currentProviderIndex, loadBalanceStrategy,
                   defaultExpiry, now, last, updates, log>>

NextApi ==
    \/ \E r \in Requests, options \in UploadOptions, t \in Instants,
          random \in Draws(providers, loadBalanceStrategy) :
           generateUploadUrl(r, options, t, random)
    \/ \E r \in Requests, options \in ReadOptions : generateReadUrl(r, options)
    \/ \E r \in Requests, t \in Instants : signed(r, t)
    \/ \E r \in {q \in Requests : requests[q].pc = "signing"} :
           \E info \in {NoId, requests[r].provider.id} : signerFailed(r, info)
    \/ \E r \in Requests : getStats(r)
    \/ \E configData \in ConfigPayloads : updateConfig(configData)

SpecApi == InitApi /\ [][NextApi]_vars

\* ============================================ the configuration watcher
\* loadExternalConfig registers a callback (file change, remote poll) that
\* reads the source, parses it and hands the payload to updateConfig inside
\* try/catch; a failure is logged and swallowed.

\* the payloads the source delivers: a list that repeats an id, lists with
\* the removal flag (which can empty the registry, so that a later payload
\* re-adds an id), and a list whose second entry is null
MergePayloads ==
    {[providers |-> << >>, removeStaleProviders |-> TRUE],
     [providers |-> <<[id |-> "C"]>>, removeStaleProviders |-> TRUE],
     [providers |-> <<[id |-> "A", rateLimit |-> 250]>>, removeStaleProviders |-> FALSE],
     [providers |-> <<[id |-> "A", rateLimit |-> 250], [id |-> "A", weight |-> 2]>>],
     [providers |-> <<[id |-> "B", bucket |-> "b3"], [id |-> "C"], [id |-> "B", weight |-> 2]>>],
     [providers |-> <<[id |-> "C"], Null>>, loadBalanceStrategy |-> "least-used",
      defaultExpiry |-> 7200]}

\* the read or the parse throws: updateConfig is not called
configReadFailed ==
    /\ log' = "error"
    /\ UNCHANGED <<providers, providerUsage, currentProviderIndex, loadBalanceStrategy,
                   defaultExpiry, now, last, updates, requests>>

\* the payload is read and merged; a throw of updateConfig is caught
configChanged(configData) ==
    /\ updates < MaxMerges
    /\ LET out == configOutcome(providers, providerUsage, loadBalanceStrategy,
                                defaultExpiry, configData)
       IN /\ providers' = out.providers
          /\ providerUsage' = out.usage
          /\ loadBalanceStrategy' = out.strategy
          /\ defaultExpiry' = out.expiry
          /\ log' = IF out.threw THEN "error" ELSE "updated"
    /\ updates' = updates + 1
    /\ UNCHANGED <<currentProviderIndex, now, last, requests>>

NextConfig ==
    \/ configReadFailed
    \/ \E configData \in MergePayloads : configChanged(configData)

SpecConfig == Init /\ [][NextConfig]_vars

\* ---------------------------------------------------------------- C11
\* C11: provider ids are unique in the registry in every reachable state,
\* whatever the payloads: one that repeats an id, one that re-adds an id
\* removed before.
C11_UniqueIds ==
    \A i, j \in 1..Len(providers) : providers[i].id = providers[j].id => i = j

\* the registry was emptied and A re-added by a payload naming A twice
C11_Witness ==
    /\ updates = 2
    /\ providers = <<[id |-> "A", rateLimit |-> 250, weight |-> 2]>>
    /\ providerUsage["A"].rateLimit = 250

\* ---------------------------------------------------------------- C12
\* C12 (as claimed): in every reachable state the usage record's rate limit
\* is the configured rate limit of its provider, 1000 when unset.
C12_UsageRateLimitIsConfigured ==
    \A i \in 1..Len(providers) :
        UsageAt(i).rateLimit = OrDefault(providers[i], "rateLimit", DefaultRateLimit)

\* ---------------------------------------------------------------- C17
\* C17 (as claimed): a configuration update that fails (the source cannot
\* be read or parsed, or the merge throws part-way) leaves the providers,
\* the usage records, the strategy and the default expiry as they were.
C17_FailedUpdateChangesNothing ==
    [][log' = "error" =>
          UNCHANGED <<providers, providerUsage, loadBalanceStrategy, defaultExpiry>>]_vars

\* ================================================ claims on the interface
\* caller r starts a generateUploadUrl / a generateReadUrl call in this step
UploadStep(r, options) ==
    /\ requests[r].pc = "idle" /\ requests'[r].pc # "idle"
    /\ \E t \in Instants, random \in Draws(providers, loadBalanceStrategy) :
           generateUploadUrl(r, options, t, random)

\* the positions of the providers with the given id / bucket
PositionsWith(f, v) == {i \in 1..Len(providers) : Field(providers[i], f) = v}

FirstOf(S) == CHOOSE i \in S : \A j \in S : i <= j

RECURSIVE SumListed(_, _)
SumListed(stats, i) ==
    IF i > Len(stats) THEN 0 ELSE stats[i].requestCount + SumListed(stats, i + 1)

\* ---------------------------------------------------------------- C13
\* C13 (as claimed): every snapshot of getStats has providerCount equal to
\* the number of providers in the registry and totalRequests equal to the
\* sum of requestCount over the providers listed in providerStats.
C13_StatsTotals ==
    [][\A r \in Requests : getStats(r) =>
          /\ requests'[r].providerCount = Len(providers)
          /\ Len(requests'[r].providerStats) = Len(providers)
          /\ requests'[r].totalRequests = SumListed(requests'[r].providerStats, 1)]_vars

\* ---------------------------------------------------------------- C14
\* C14: a call of getStats leaves the provider list, every usage record,
\* the round-robin cursor, the strategy and the default expiry unchanged.
C14_StatsIsPureRead ==
    [][\A r \in Requests : getStats(r) =>
          UNCHANGED <<providers, providerUsage, currentProviderIndex,
                      loadBalanceStrategy, defaultExpiry>>]_vars

\* a snapshot was taken after a selection had moved the cursor
C14_Witness ==
    /\ currentProviderIndex = 1
    /\ totalRequests(providerUsage) = 1
    /\ \E r \in Requests :
           /\ requests[r].pc = "done" /\ requests[r].op = "stats"
           /\ requests[r].totalRequests = 1

\* ---------------------------------------------------------------- C15
\* what a complete merge of the payload leaves
WholeMerge(configData) ==
    /\ \A k \in 1..Len(Incoming(configData)) :
           Incoming(configData)[k].id \in RegistryIds'
    /\ wantsRemoval(configData) =>
           \A id \in RegistryIds' : isIncoming(Incoming(configData), id)
    /\ Has(configData, "loadBalanceStrategy") =>
           loadBalanceStrategy' = configData.loadBalanceStrategy
    /\ Has(configData, "defaultExpiry") => defaultExpiry' = configData.defaultExpiry

C16_SelectionIsOneStep ==
    [][\A r \in Requests, options \in UploadOptions :
          (UploadStep(r, options) /\ ~Has(options, "providerId")
               /\ last'.status = "ok") =>
              /\ totalRequests(providerUsage') = totalRequests(providerUsage) + 1
              /\ loadBalanceStrategy = "round-robin" =>
                     /\ last'.candidate = providers[currentProviderIndex + 1].id
                     /\ currentProviderIndex'
                            = (currentProviderIndex + 1) % Len(providers)
              /\ (loadBalanceStrategy = "round-robin" /\ updates = 0) =>
                     currentProviderIndex'
                         = totalRequests(providerUsage') % Len(providers)]_vars

\* two round-robin upload requests are in flight at once, holding A and B
C16_Witness ==
    /\ loadBalanceStrategy = "round-robin" /\ updates = 0
    /\ requests["r1"].pc = "signing" /\ requests["r2"].pc = "signing"
    /\ requests["r1"].op = "upload" /\ requests["r2"].op = "upload"
    /\ requests["r1"].provider.id # requests["r2"].provider.id
    /\ totalRequests(providerUsage) = 2
    /\ currentProviderIndex = 0

\* ---------------------------------------------------------------- C18
\* C18: generateUploadUrl with a providerId uses exactly the registry
\* provider with that id, without calling the selector, and fails with
\* "Provider not found" naming the id when there is none; without a
\* providerId it uses the provider the selector returned, and fails when
\* the selector fails; the result carries that provider's id and bucket.
C18_UploadProvider ==
    [][/\ \A r \in Requests, options \in UploadOptions : UploadStep(r, options) =>
              LET q == requests'[r]
                  S == PositionsWith("id", Field(options, "providerId"))
              IN IF Has(options, "providerId")
                 THEN /\ UNCHANGED <<providerUsage, currentProviderIndex, last>>
                      /\ IF S = {}
                         THEN q = failed("upload", [kind |-> "ProviderNotFound",
                                                    providerId |-> options.providerId])
                         ELSE /\ q.pc = "signing" => q.provider = providers[FirstOf(S)]
                              /\ q.pc = "done" =>
                                     q.error.kind = "UnsupportedProviderType"
                 ELSE /\ last'.status # "ok" =>
                             q = failed("upload", [kind |-> last'.status])
                      /\ (last'.status = "ok" /\ q.pc = "signing") =>
                             /\ q.provider.id = last'.returned
                             /\ q.provider \in {providers[i] : i \in 1..Len(providers)}
                      /\ (last'.status = "ok" /\ q.pc = "done") =>
                             q.error.kind = "UnsupportedProviderType"
       /\ \A r \in Requests, t \in Instants :
              (signed(r, t) /\ requests[r].op = "upload") =>
                  /\ requests'[r].status = "ok"
                  /\ requests'[r].provider = requests[r].provider.id
                  /\ requests'[r].bucket = Field(requests[r].provider, "bucket")]_vars

\* one upload named the unknown provider Z and failed, the other one left
\* the choice to the selector and returned its provider
C18_Witness ==
    \E r, q \in Requests :
        /\ requests[r] = failed("upload", [kind |-> "ProviderNotFound",
                                            providerId |-> "Z"])
        /\ requests[q].pc = "done" /\ requests[q].op = "upload"
        /\ requests[q].status = "ok"
        /\ last.status = "ok" /\ requests[q].provider = last.returned
        /\ requests[q].bucket = "b1"

\* ---------------------------------------------------------------- C19
\* C19: generateReadUrl resolves its provider by providerId when one is
\* given, otherwise by the first provider in list order whose bucket is the
\* given bucket, and fails with "Provider not found" when neither is given
\* or nothing matches; the result carries the caller's key unchanged and
\* the resolved provider's id and bucket.
C19_ReadProvider ==
    [][/\ \A r \in Requests, options \in ReadOptions : generateReadUrl(r, options) =>
              LET q == requests'[r]
                  S == IF Has(options, "providerId")
                       THEN PositionsWith("id", options.providerId)
                       ELSE IF Has(options, "bucket")
                       THEN PositionsWith("bucket", options.bucket)
                       ELSE {}
              IN IF S = {}
                 THEN q = failed("read", [kind |-> "ProviderNotFound"])
                 ELSE /\ q.pc = "signing" =>
                             /\ q.provider = providers[FirstOf(S)]
                             /\ q.key = options.key
                      /\ q.pc = "done" => q.error.kind = "UnsupportedProviderType"
       /\ \A r \in Requests, t \in Instants :
              (signed(r, t) /\ requests[r].op = "read") =>
                  /\ requests'[r].status = "ok"
                  /\ requests'[r].key = requests[r].key
                  /\ requests'[r].provider = requests[r].provider.id
                  /\ requests'[r].bucket = Field(requests[r].provider, "bucket")]_vars

\* a read by bucket b1, which A and B share, returned A with the key
C19_Witness ==
    /\ Len(providers) = 2
    /\ Field(providers[1], "bucket") = "b1" /\ Field(providers[2], "bucket") = "b1"
    /\ \E r \in Requests :
           /\ requests[r].pc = "done" /\ requests[r].op = "read"
           /\ requests[r].status = "ok"
           /\ requests[r].provider = "A" /\ requests[r].bucket = "b1"
           /\ requests[r].key = <<"k">>

\* ---------------------------------------------------------------- C20
\* a request naming the provider at list position i
NamesProvider(r, i) ==
    \/ generateReadUrl(r, [key |-> <<"k">>, providerId |-> providers[i].id])
    \/ UploadStep(r, [filename |-> "f", providerId |-> providers[i].id])

\* C20: creating a client for a provider whose type is neither s3 nor r2
\* fails with "Unsupported provider type" naming the type, so a URL request
\* against such a provider fails and no request waits for the signer with
\* such a provider.
C20_UnsupportedTypeFails ==
    [][/\ \A r \in Requests, i \in 1..Len(providers) :
              (NamesProvider(r, i) /\ Field(providers[i], "type") \notin SupportedTypes) =>
                  /\ requests'[r].pc = "done" /\ requests'[r].status = "error"
                  /\ requests'[r].error = [kind |-> "UnsupportedProviderType",
                                           type |-> Field(providers[i], "type")]
       /\ \A r \in Requests :
              requests'[r].pc = "signing" =>
                  Field(requests'[r].provider, "type") \in SupportedTypes]_vars

\* a request against the ftp provider B failed, naming ftp
C20_Witness ==
    \E r \in Requests :
        /\ requests[r].pc = "done" /\ requests[r].status = "error"
        /\ requests[r].error = [kind |-> "UnsupportedProviderType", type |-> "ftp"]

\* ---------------------------------------------------------------- C21
\* the callers whose upload waits for the signer
SigningUploads ==
    {r \in Requests : requests[r].pc = "signing" /\ requests[r].op = "upload"}

ErrorCountsKept ==
    \A id \in DOMAIN providerUsage :
        providerUsage'[id].errorCount = providerUsage[id].errorCount

\* C21: no operation counts an error on its own.  The errorCount of a
\* provider of the registry changes, and the errorCount of any usage record
\* grows, only in a step in which a pending generateUploadUrl fails with an
\* error that names a provider having a usage record, and then that
\* record's errorCount grows by 1 and nothing else changes; a selection, a
\* merge, a snapshot, a read request and an upload that fails without
\* naming such a provider leave every errorCount as it was.
C21_NoErrorCountedUnnamed ==
    [][/\ \A id \in DOMAIN providerUsage :
              (\/ providerUsage'[id].errorCount > providerUsage[id].errorCount
               \/ /\ id \in RegistryIds
                  /\ providerUsage'[id].errorCount # providerUsage[id].errorCount)
                  => \E r \in SigningUploads : signerFailed(r, id)
       /\ \A r \in Requests :
              (requests[r].pc = "signing" /\ signerFailed(r, NoId)) => ErrorCountsKept
       /\ \A r \in Requests :
              (requests[r].pc = "idle" /\ requests'[r].pc = "done") => ErrorCountsKept]_vars

\* one upload failed at the signer without naming a provider, the other
\* one failed naming its provider A: one error is counted, against A
C21_Witness ==
    /\ \A r \in Requests : requests[r] = failed("upload", [kind |-> "SignerError"])
    /\ providerUsage["A"].requestCount = 1 /\ providerUsage["B"].requestCount = 1
    /\ providerUsage["A"].errorCount = 1
    /\ providerUsage["B"].errorCount = 0

\* ---------------------------------------------------------------- C22
\* C22: the requestCount of a provider that stays in the registry never
\* decreases, whatever the step; a successful selection changes the usage
\* record of exactly one provider of the registry: its requestCount grows
\* by exactly 1, and every other usage record, requestCount and lastUsed
\* included, is as it was.
C22_OneRequestCounted ==
    [][/\ \A id \in RegistryIds \cap RegistryIds' :
              providerUsage'[id].requestCount >= providerUsage[id].requestCount
       /\ (SelectStep /\ last'.status = "ok") =>
              \E id \in RegistryIds :
                  /\ providerUsage'[id].requestCount
                         = providerUsage[id].requestCount + 1
                  /\ providerUsage'[id].errorCount = providerUsage[id].errorCount
                  /\ providerUsage'[id].rateLimit = providerUsage[id].rateLimit
                  /\ \A other \in DOMAIN providerUsage \ {id} :
                         providerUsage'[other] = providerUsage[other]]_vars

\* A served a request, stayed in the registry through a merge that gave it
\* a new rate limit, and served one more; B was never touched
C22_Witness ==
    /\ updates = 1
    /\ Len(providers) = 2
    /\ providers[1].id = "A" /\ providers[2].id = "B"
    /\ Has(providers[1], "rateLimit") /\ providers[1].rateLimit = 250
    /\ last.status = "ok"
    /\ providerUsage["A"].requestCount = 2
    /\ providerUsage["B"].requestCount = 0 /\ providerUsage["B"].lastUsed = 0

\* ---------------------------------------------------------------- C23
\* C23: a call of updateConfig changes the strategy only when the payload
\* carries loadBalanceStrategy, and then to the payload's value, and the
\* default expiry only when the payload carries defaultExpiry, and then to
\* the payload's value; a payload with neither leaves both as they were;
\* and no call of updateConfig changes the round-robin cursor.
C23_SettingsOnlyWhenCarried ==
    [][ConfigStep =>
          /\ currentProviderIndex' = currentProviderIndex
          /\ \A configData \in ConfigPayloads : updateConfig(configData) =>
                 /\ loadBalanceStrategy' =
                        IF Has(configData, "loadBalanceStrategy")
                        THEN configData.loadBalanceStrategy
                        ELSE loadBalanceStrategy
                 /\ defaultExpiry' =
                        IF Has(configData, "defaultExpiry")
                        THEN configData.defaultExpiry
                        ELSE defaultExpiry]_vars

\* a payload with only providers added C after the cursor had moved: the
\* strategy the session was built with, the default expiry and the cursor
\* are as before
C23_Witness ==
    /\ updates = 1
    /\ "C" \in RegistryIds
    /\ loadBalanceStrategy = "round-robin"
    /\ currentProviderIndex = 1
    /\ defaultExpiry = DefaultExpiry

\* ---------------------------------------------------------------- C24
RecognizedStrategies == {"round-robin", "least-used", "least-errors", "weighted-random"}

\* C24: under a strategy value that is none of the four, a call on a
\* non-empty registry does not fail; its candidate is the first provider of
\* the list, which is returned when its rate gate is satisfied, and when
\* another provider is returned that is the gate's substitution; the
\* round-robin cursor is left as it was.
C24_UnrecognizedStrategyTakesFirst ==
    [][(SelectStep /\ loadBalanceStrategy \notin RecognizedStrategies
            /\ Len(providers) > 0) =>
          LET first == providers[1].id
          IN /\ last'.status = "ok"
             /\ last'.candidate = first
             /\ IntervalElapsed(providerUsage[first], now') => last'.returned = first
             /\ last'.returned # first =>
                    /\ ~IntervalElapsed(providerUsage[first], now')
                    /\ last'.returned = providers[FirstOpenPosition(now')].id
             /\ currentProviderIndex' = currentProviderIndex]_vars

\* the strategy became "fastest" after round-robin had moved the cursor to
\* 1; the next call took the first provider, A, and left the cursor at 1
C24_Witness ==
    /\ loadBalanceStrategy = "fastest"
    /\ currentProviderIndex = 1
    /\ Len(providers) = 2
    /\ last.status = "ok" /\ last.candidate = "A"
    /\ totalRequests(providerUsage) = 2

\* ---------------------------------------------------------------- C25
\* the steps of one request: it reaches await getSignedUrl, the signer
\* answers
ReachesSigner(r) == requests[r].pc = "idle" /\ requests'[r].pc = "signing"

SignerAnswers(r) == requests[r].pc = "signing" /\ requests'[r].pc = "done"

\* an upload is waiting for the signer and other callers go on: a merge
\* and another caller's selection are possible next steps
OthersRunWhileSigning ==
    \A r \in SigningUploads :
        /\ updates < MaxUpdates =>
               ENABLED (\E configData \in ConfigPayloads : updateConfig(configData))
        /\ \A q \in Requests :
               requests[q].pc = "idle" =>
                   ENABLED (\E t \in Instants :
                                generateUploadUrl(q, [filename |-> "f"], t, 0))

ZeroString == [string |-> <<0>>]

\* C26 (as claimed): in every snapshot of getStats the errorRate of every
\* provider is a string: the 4-decimal rendering of errorCount /
\* requestCount when requestCount > 0, and the string "0" when
\* requestCount is 0.
C26_ErrorRateIsString ==
    [][\A r \in Requests : getStats(r) =>
          \A i \in 1..Len(requests'[r].providerStats) :
              LET stat == requests'[r].providerStats[i]
              IN /\ Has(stat.errorRate, "string")
                 /\ stat.errorRate =
                        IF stat.requestCount > 0
                        THEN [string |-> toFixed4(stat.errorCount, stat.requestCount)]
                        ELSE ZeroString]_vars

\* ---------------------------------------------------------------- C27
\* a text without its leading slashes / without its trailing slashes
RECURSIVE WithoutLeadingSlashes(_)
WithoutLeadingSlashes(text) ==
    IF Len(text) > 0 /\ Head(text) = "/" THEN WithoutLeadingSlashes(Tail(text)) ELSE text

RECURSIVE WithoutTrailingSlashes(_)
WithoutTrailingSlashes(text) ==
    IF Len(text) > 0 /\ text[Len(text)] = "/"
    THEN WithoutTrailingSlashes(SubSeq(text, 1, Len(text) - 1))
    ELSE text

\* the path prefix of the key: the path with leading and trailing slashes
\* stripped, then "/"; empty without a path
KeyPrefix(options) ==
    IF Has(options, "path")
    THEN WithoutTrailingSlashes(WithoutLeadingSlashes(options.path)) \o <<"/">>
    ELSE << >>

\* C27 (as claimed): the key of a generateUploadUrl call is the path with
\* leading and trailing slashes stripped and "/" (when a path is given),
\* then a token, "-" and the filename; and it differs from the key of
\* every other call, identical inputs included.
C27_UploadKey ==
    [][\A r \in Requests, options \in UploadOptions :
          (UploadStep(r, options) /\ ReachesSigner(r)) =>
              LET key == requests'[r].key
                  prefix == KeyPrefix(options)
              IN /\ Len(key) = Len(prefix) + 3
                 /\ SubSeq(key, 1, Len(prefix)) = prefix
                 /\ key[Len(prefix) + 2] = "-"
                 /\ key[Len(prefix) + 3] = options.filename
                 /\ \A q \in Requests \ {r} :
                        Has(requests'[q], "key") => requests'[q].key # key]_vars

\* ---------------------------------------------------------------- C28
\* a usage record as it is created
IsFresh(u) == u.requestCount = 0 /\ u.errorCount = 0 /\ u.lastUsed = 0

EveryProviderHasUsage ==
    \A i \in 1..Len(providers) : providers[i].id \in DOMAIN providerUsage

\* C28: in every reachable state every provider of the registry has a
\* usage record.  The records of the providers the constructor is given
\* start with requestCount 0, errorCount 0 and lastUsed 0, and so does the
\* record of every provider a merge adds to the registry.
C28_UsageRecordForEveryProvider ==
    /\ \A i \in 1..Len(providers) :
           providers[i].id \in DOMAIN providerUsage /\ IsFresh(UsageAt(i))
    /\ []EveryProviderHasUsage
    /\ [][\A id \in RegistryIds' \ RegistryIds :
              id \in DOMAIN providerUsage' /\ IsFresh(providerUsage'[id])]_vars

\* a merge added C to an empty registry and the next selection read and
\* updated C's usage record
C28_Witness ==
    /\ updates = 1
    /\ RegistryIds = {"C"}
    /\ last.status = "ok" /\ last.returned = "C"
    /\ providerUsage["C"].requestCount = 1

\* ---------------------------------------------------------------- C29
\* C29 (as claimed): a call of getStorageProvider that fails leaves the
\* round-robin cursor, every requestCount and every lastUsed as they were.
C29_FailedSelectionChangesNothing ==
    [][(SelectStep /\ last'.status # "ok") =>
          /\ currentProviderIndex' = currentProviderIndex
          /\ \A id \in DOMAIN providerUsage :
                 /\ providerUsage'[id].requestCount = providerUsage[id].requestCount
                 /\ providerUsage'[id].lastUsed = providerUsage[id].lastUsed]_vars

\* ---------------------------------------------------------------- C30
SelectionStateKept ==
    /\ currentProviderIndex' = currentProviderIndex
    /\ \A id \in DOMAIN providerUsage :
           /\ providerUsage'[id].requestCount = providerUsage[id].requestCount
           /\ providerUsage'[id].lastUsed = providerUsage[id].lastUsed

\* C30: a generateReadUrl call, and a generateUploadUrl call that names
\* its provider, never run the selector: from the call to its result,
\* success or failure, the round-robin cursor and the requestCount and
\* lastUsed of every usage record are as they were.
C30_NoSelectionWhenProviderNamed ==
    [][/\ \A r \in Requests, options \in ReadOptions :
              generateReadUrl(r, options) => SelectionStateKept
       /\ \A r \in Requests, options \in UploadOptions :
              (Has(options, "providerId") /\ UploadStep(r, options)) =>
                  SelectionStateKept /\ last' = last
       /\ \A r \in Requests : SignerAnswers(r) => SelectionStateKept]_vars

\* after one selection had moved the cursor to 1, an upload naming B got
\* its URL: B has never been counted and the cursor is still 1
C30_Witness ==
    /\ currentProviderIndex = 1
    /\ totalRequests(providerUsage) = 1
    /\ providerUsage["B"].requestCount = 0 /\ providerUsage["B"].lastUsed = 0
    /\ \E r \in Requests :
           /\ requests[r].pc = "done" /\ requests[r].op = "upload"
           /\ requests[r].status = "ok" /\ requests[r].provider = "B"

\* ---------------------------------------------------------------- C31
\* the list position of the provider with the given id
PositionOf(ps, id) == CHOOSE i \in 1..Len(ps) : ps[i].id = id

\* where the payload's list names the id first
FirstNamed(incoming, id) ==
    CHOOSE k \in 1..Len(incoming) :
        /\ ~isNull(incoming[k]) /\ incoming[k].id = id
        /\ \A j \in 1..(k - 1) : isNull(incoming[j]) \/ incoming[j].id # id

\* C31: a merge preserves list order.  The providers that are in the
\* registry before the merge and after it keep their relative order, and
\* their list positions when nothing is removed; the providers new to the
\* registry come after all of those, in the order in which the incoming
\* list names them first.
C31_MergePreservesOrder ==
    [][ConfigStep => \A configData \in MergePayloads : configChanged(configData) =>
          LET kept == RegistryIds \cap RegistryIds'
              new == RegistryIds' \ RegistryIds
          IN /\ \A a, b \in kept :
                    PositionOf(providers, a) < PositionOf(providers, b)
                        => PositionOf(providers', a) < PositionOf(providers', b)
             /\ kept = RegistryIds =>
                    \A i \in 1..Len(providers) : providers'[i].id = providers[i].id
             /\ \A a \in kept, b \in new :
                    PositionOf(providers', a) < PositionOf(providers', b)
             /\ \A a, b \in new :
                    FirstNamed(Incoming(configData), a) < FirstNamed(Incoming(configData), b)
                        => PositionOf(providers', a) < PositionOf(providers', b)]_vars

\* C was in the registry and B was not when a payload naming B, C, B
\* arrived: C kept the first position and B was appended after it
C31_Witness ==
    /\ updates = 2
    /\ Len(providers) = 2
    /\ providers[1].id = "C"
    /\ providers[2] = [id |-> "B", bucket |-> "b3", weight |-> 2]

====
